---------------------------- MODULE Spec2Model ----------------------------
(***************************************************************************)
(* A model of the tiny-artnet codec: the envelope dispatcher from_slice    *)
(* with its per-opcode parsers, the Port-Address bit-field parser, the     *)
(* padded-string writer put_padded_str and PollReply::serialize.           *)
(*                                                                         *)
(* A byte is a number in 0..255 and a slice is a sequence of bytes.  A nom *)
(* parser is an operator from a slice to [ok, val, rest, kind]: ok tells   *)
(* success, val is the parsed value, rest the unconsumed slice and kind    *)
(* the nom error kind of a failure.                                        *)
(***************************************************************************)
EXTENDS Integers, Sequences, FiniteSets

VARIABLES
    pc,         \* position of the receive loop: "recv", "decode", "handle", "aborted"
    buf,        \* the datagram handed to from_slice
    result,     \* what from_slice returned (or NoResult)
    pa_bytes,   \* the slice handed to parse_port_address
    pa_out,     \* what parse_port_address returned (or NoResult)
    ix_addrs,   \* two Port-Addresses
    ix_out,     \* their as_index values (or NoResult)
    ps_n,       \* N of put_padded_str::<N>
    ps_input,   \* the text handed to put_padded_str, as its bytes
    ps_before,  \* the destination before the call
    ps_after,   \* the destination after the call (or NoResult, or Panic)
    reply,      \* the PollReply record
    out_before, \* the buffer handed to serialize
    out_after,  \* the buffer after serialize (or NoResult, or Panic)
    written     \* the value serialize returned

decodeVars == <<pc, buf, result>>
portVars == <<pa_bytes, pa_out>>
indexVars == <<ix_addrs, ix_out>>
padVars == <<ps_n, ps_input, ps_before, ps_after>>
replyVars == <<reply, out_before, out_after, written>>
vars == <<decodeVars, portVars, indexVars, padVars, replyVars>>
notDecodeVars == <<portVars, indexVars, padVars, replyVars>>
notPortVars == <<decodeVars, indexVars, padVars, replyVars>>
notIndexVars == <<decodeVars, portVars, padVars, replyVars>>
notPadVars == <<decodeVars, portVars, indexVars, replyVars>>
notReplyVars == <<decodeVars, portVars, indexVars, padVars>>

U16_MAX == 65535

Take(s, n) == SubSeq(s, 1, n)
Drop(s, n) == SubSeq(s, n + 1, Len(s))

(***************************************************************************)
(* nom primitives                                                          *)
(***************************************************************************)
Done(v, r) == [ok |-> TRUE, val |-> v, rest |-> r, kind |-> "None"]
Fail(k, r) == [ok |-> FALSE, val |-> 0, rest |-> r, kind |-> k]

\* A tag that compares all but the last byte of the tag: C6 must tell it
\* from tag.
tag_IgnoresLastByte(t, s) ==
    IF Len(s) >= Len(t) /\ Take(s, Len(t) - 1) = Take(t, Len(t) - 1)
    THEN [ok |-> TRUE, val |-> t, rest |-> Drop(s, Len(t)), kind |-> "None"]
    ELSE [ok |-> FALSE, val |-> 0, rest |-> s, kind |-> "Tag"]

\* nom::bytes::complete::tag
tag(t, s) ==
    IF Len(s) >= Len(t) /\ Take(s, Len(t)) = t
    THEN Done(t, Drop(s, Len(t)))
    ELSE Fail("Tag", s)

\* nom::number::complete::u8
u8(s) == IF Len(s) < 1 THEN Fail("Eof", s) ELSE Done(s[1], Drop(s, 1))

\* le_u16 reading the bytes in big-endian order: C5 must tell it from le_u16.
le_u16_BigEndian(s) ==
    IF Len(s) < 2 THEN Fail("Eof", s) ELSE Done(256 * s[1] + s[2], Drop(s, 2))

\* nom::number::complete::le_u16
le_u16(s) ==
    IF Len(s) < 2 THEN Fail("Eof", s) ELSE Done(s[1] + 256 * s[2], Drop(s, 2))

\* nom::number::complete::be_u16
be_u16(s) ==
    IF Len(s) < 2 THEN Fail("Eof", s) ELSE Done(256 * s[1] + s[2], Drop(s, 2))

\* The bit at bit offset o of slice s, counted as nom::bits does: offset 0 is
\* the most significant bit of the first byte.
BitAt(s, o) == (s[(o \div 8) + 1] \div (2 ^ (7 - (o % 8)))) % 2

\* nom::bits::complete::take(count) at bit offset o: the next count bits as a
\* number, most significant bit first.
RECURSIVE TakeBitsVal(_, _, _)
TakeBitsVal(s, o, count) ==
    IF count = 0 THEN 0
    ELSE 2 * TakeBitsVal(s, o, count - 1) + BitAt(s, o + count - 1)

take_bits(s, o, count) ==
    IF Len(s) * 8 < o + count
    THEN Fail("Eof", s)
    ELSE [ok |-> TRUE, val |-> TakeBitsVal(s, o, count), rest |-> s,
          kind |-> "None", off |-> o + count]

(***************************************************************************)
(* Values returned to the caller of from_slice                             *)
(***************************************************************************)
NoResult == [tag |-> "None"]
\* Error::ParserError(nom::Err), through From<nom::Err> for Error
ParserError(k) == [tag |-> "Err", err |-> "ParserError", kind |-> k]
UnsupportedProtocolVersion(v) ==
    [tag |-> "Err", err |-> "UnsupportedProtocolVersion", value |-> v]
UnsupportedOpCode(v) == [tag |-> "Err", err |-> "UnsupportedOpCode", value |-> v]
Ok(m) == [tag |-> "Ok", art |-> m]
\* A Rust panic (slice index out of range): no value reaches the caller.
Panic == [tag |-> "Panic"]

ID == <<65, 114, 116, 45, 78, 101, 116, 0>>

(***************************************************************************)
(* Port-Address                                                            *)
(***************************************************************************)
PortAddress(n, s, u) == [net |-> n, sub_net |-> s, universe |-> u]

\* parse_port_address with the nibbles of byte 0 the other way round
\* (sub_net from the low nibble): C2 must tell it from parse_port_address.
parse_port_address_LowNibbleFirst(s) ==
    IF Len(s) < 2 THEN Fail("Eof", s)
    ELSE Done(PortAddress(s[2] % 128, s[1] % 16, s[1] \div 16), Drop(s, 2))

\* nom::bits::bits(tuple((take(4), take(4), take(1), take(7)))): the four
\* fields read in this order from the bit stream, then the whole bytes the
\* bit parser consumed are dropped.
parse_port_address(s) ==
    LET sub_net  == take_bits(s, 0, 4)
        universe == take_bits(s, 4, 4)
        unused   == take_bits(s, 8, 1)
        net      == take_bits(s, 9, 7)
    IN  IF ~sub_net.ok \/ ~universe.ok \/ ~unused.ok \/ ~net.ok
        THEN Fail("Eof", s)
        ELSE Done(PortAddress(net.val, sub_net.val, universe.val),
                  Drop(s, net.off \div 8))

\* usize shift right
Shr(x, n) == x \div (2 ^ n)

as_index(a) == Shr(a.net, 14) + Shr(a.sub_net, 7) + a.universe

(***************************************************************************)
(* Per-message parsers: each returns Ok(record), ParserError or Panic      *)
(***************************************************************************)
parse_esta_manufacturer_code(s) ==
    LET lo == u8(s)
        hi == u8(lo.rest)
    IN  IF ~lo.ok THEN Fail(lo.kind, s)
        ELSE IF ~hi.ok THEN Fail(hi.kind, s)
        ELSE Done(<<lo.val, hi.val>>, hi.rest)

\* parse_poll reading the range only when at least 4 bytes remain and
\* defaulting it otherwise: C3 must tell it from parse_poll.
parse_poll_NeedsFourBytes(s) ==
    LET flags == u8(s)
        prio  == u8(flags.rest)
        top   == be_u16(prio.rest)
        bot   == be_u16(top.rest)
    IN  IF ~flags.ok THEN ParserError(flags.kind)
        ELSE IF ~prio.ok THEN ParserError(prio.kind)
        ELSE IF Len(prio.rest) >= 4
        THEN Ok([kind |-> "Poll", flags |-> flags.val,
                 min_diagnostic_priority |-> prio.val,
                 target_port_addresses |-> <<top.val, bot.val>>])
        ELSE Ok([kind |-> "Poll", flags |-> flags.val,
                 min_diagnostic_priority |-> prio.val,
                 target_port_addresses |-> <<0, U16_MAX>>])

parse_poll(s) ==
    LET flags == u8(s)
        prio  == u8(flags.rest)
        top   == be_u16(prio.rest)
        bot   == be_u16(top.rest)
    IN  IF ~flags.ok THEN ParserError(flags.kind)
        ELSE IF ~prio.ok THEN ParserError(prio.kind)
        ELSE IF prio.rest # <<>>
        THEN IF ~top.ok THEN ParserError(top.kind)
             ELSE IF ~bot.ok THEN ParserError(bot.kind)
             ELSE Ok([kind |-> "Poll", flags |-> flags.val,
                      min_diagnostic_priority |-> prio.val,
                      target_port_addresses |-> <<top.val, bot.val>>])
        ELSE Ok([kind |-> "Poll", flags |-> flags.val,
                 min_diagnostic_priority |-> prio.val,
                 target_port_addresses |-> <<0, U16_MAX>>])

\* &s[..length]: the first length bytes of s; out of range is a panic.
SliceTo(s, length) == IF length > Len(s) THEN Panic ELSE Ok(Take(s, length))

parse_command(s) ==
    LET code   == parse_esta_manufacturer_code(s)
        length == le_u16(code.rest)
        data   == SliceTo(length.rest, length.val)
    IN  IF ~code.ok THEN ParserError(code.kind)
        ELSE IF ~length.ok THEN ParserError(length.kind)
        ELSE IF data.tag = "Panic" THEN Panic
        ELSE Ok([kind |-> "Command", esta_manufacturer_code |-> code.val,
                 data |-> data.art])

\* parse_dmx reading its length little-endian, as parse_command does: C9
\* must tell it from parse_dmx.
parse_dmx_LengthLE(s) ==
    LET sequence == u8(s)
        physical == u8(sequence.rest)
        address  == parse_port_address(physical.rest)
        length   == le_u16(address.rest)
        data     == SliceTo(length.rest, length.val)
    IN  IF ~sequence.ok THEN ParserError(sequence.kind)
        ELSE IF ~physical.ok THEN ParserError(physical.kind)
        ELSE IF ~address.ok THEN ParserError(address.kind)
        ELSE IF ~length.ok THEN ParserError(length.kind)
        ELSE IF data.tag = "Panic" THEN Panic
        ELSE Ok([kind |-> "Dmx", sequence |-> sequence.val,
                 physical |-> physical.val, port_address |-> address.val,
                 data |-> data.art])

parse_dmx(s) ==
    LET sequence == u8(s)
        physical == u8(sequence.rest)
        address  == parse_port_address(physical.rest)
        length   == be_u16(address.rest)
        data     == SliceTo(length.rest, length.val)
    IN  IF ~sequence.ok THEN ParserError(sequence.kind)
        ELSE IF ~physical.ok THEN ParserError(physical.kind)
        ELSE IF ~address.ok THEN ParserError(address.kind)
        ELSE IF ~length.ok THEN ParserError(length.kind)
        ELSE IF data.tag = "Panic" THEN Panic
        ELSE Ok([kind |-> "Dmx", sequence |-> sequence.val,
                 physical |-> physical.val, port_address |-> address.val,
                 data |-> data.art])

parse_sync(s) ==
    LET aux1 == u8(s)
        aux2 == u8(aux1.rest)
    IN  IF ~aux1.ok THEN ParserError(aux1.kind)
        ELSE IF ~aux2.ok THEN ParserError(aux2.kind)
        ELSE Ok([kind |-> "Sync"])

(***************************************************************************)
(* The envelope dispatcher                                                 *)
(***************************************************************************)
OP_POLL == 8192       \* 0x2000
OP_COMMAND == 9216    \* 0x2400
OP_DMX == 20480       \* 0x5000
OP_SYNC == 20992      \* 0x5200
MAX_PROTOCOL_VERSION == 14

Dispatch(op_code, s) ==
    CASE op_code = OP_POLL    -> parse_poll(s)
      [] op_code = OP_COMMAND -> parse_command(s)
      [] op_code = OP_DMX     -> parse_dmx(s)
      [] op_code = OP_SYNC    -> parse_sync(s)
      [] OTHER                -> UnsupportedOpCode(op_code)

\* from_slice routing by opcode before it checks the version: C4 must tell
\* it from from_slice.
from_slice_RoutesFirst(s) ==
    LET id               == tag(ID, s)
        op_code          == le_u16(id.rest)
        protocol_version == be_u16(op_code.rest)
        message          == Dispatch(op_code.val, protocol_version.rest)
    IN  IF ~id.ok THEN ParserError(id.kind)
        ELSE IF ~op_code.ok THEN ParserError(op_code.kind)
        ELSE IF ~protocol_version.ok THEN ParserError(protocol_version.kind)
        ELSE IF message.tag # "Ok" THEN message
        ELSE IF protocol_version.val > MAX_PROTOCOL_VERSION
        THEN UnsupportedProtocolVersion(protocol_version.val)
        ELSE message

from_slice(s) ==
    LET id               == tag(ID, s)
        op_code          == le_u16(id.rest)
        protocol_version == be_u16(op_code.rest)
    IN  IF ~id.ok THEN ParserError(id.kind)
        ELSE IF ~op_code.ok THEN ParserError(op_code.kind)
        ELSE IF ~protocol_version.ok THEN ParserError(protocol_version.kind)
        ELSE IF protocol_version.val > MAX_PROTOCOL_VERSION
        THEN UnsupportedProtocolVersion(protocol_version.val)
        ELSE Dispatch(op_code.val, protocol_version.rest)

(***************************************************************************)
(* BufMut for &mut [u8]: a write copies to the front of the slice and      *)
(* advances the slice past what it wrote.  A writer is the part of the     *)
(* buffer already written (done) and the slice that remains (rest); a      *)
(* write that does not fit the remaining slice panics.                     *)
(***************************************************************************)
Writer(d, r) == [tag |-> "Buf", done |-> d, rest |-> r]
Contents(w) == w.done \o w.rest

put_slice(w, src) ==
    IF w.tag = "Panic" THEN Panic
    ELSE IF Len(src) > Len(w.rest) THEN Panic
    ELSE Writer(w.done \o src, Drop(w.rest, Len(src)))

put_u8(w, v) == put_slice(w, <<v>>)
\* BufMut::put_u16 writes big-endian, BufMut::put_u16_le little-endian
put_u16(w, v) == put_slice(w, <<v \div 256, v % 256>>)
put_u16_le(w, v) == put_slice(w, <<v % 256, v \div 256>>)

\* char as u8: the low 8 bits of the code point
CharAsU8(c) == c % 256

\* put_esta_manufacturer_code writing Hi before Lo: C8 must tell it from
\* put_esta_manufacturer_code.
put_esta_manufacturer_code_HiFirst(w, code) ==
    put_u8(put_u8(w, CharAsU8(code[2])), CharAsU8(code[1]))

put_esta_manufacturer_code(w, code) ==
    put_u8(put_u8(w, CharAsU8(code[1])), CharAsU8(code[2]))

Zeroes(n) == [i \in 1..n |-> 0]

\* put_padded_str keeping N bytes of the text, with no room left for the
\* terminator: C7 must tell it from put_padded_str.
put_padded_str_NoTerminator(N, w, input) ==
    LET truncated_bytes == IF Len(input) > N THEN Take(input, N) ELSE input
        filled == put_slice(Writer(<<>>, Zeroes(N)), truncated_bytes)
    IN  IF filled.tag = "Panic" THEN Panic ELSE put_slice(w, Contents(filled))

put_padded_str(N, w, input) ==
    LET padded_bytes == Zeroes(N)
        truncated_bytes ==
            IF Len(input) > N - 1 THEN Take(input, N - 1) ELSE input
        filled == put_slice(Writer(<<>>, padded_bytes), truncated_bytes)
    IN  IF filled.tag = "Panic" THEN Panic ELSE put_slice(w, Contents(filled))

SHORT_NAME_LEN == 18
LONG_NAME_LEN == 64
REPORT_LEN == 64

(***************************************************************************)
(* PollReply                                                               *)
(***************************************************************************)
OP_POLL_REPLY == 8448     \* 0x2100
DEFAULT_4_BYTES == <<0, 0, 0, 0>>
DEFAULT_6_BYTES == <<0, 0, 0, 0, 0, 0>>

\* impl Default for PollReply
DefaultPollReply ==
    [ip_address |-> DEFAULT_4_BYTES,
     port |-> 0,
     firmware_version |-> 0,
     net_switch |-> 0,
     sub_switch |-> 0,
     oem |-> 0,
     ubea_version |-> 0,
     status1 |-> 192,
     esta_manufacturer_code |-> <<0, 0>>,
     short_name |-> <<>>,
     long_name |-> <<>>,
     node_report |-> <<>>,
     num_ports |-> 0,
     port_types |-> DEFAULT_4_BYTES,
     good_input |-> DEFAULT_4_BYTES,
     good_output_a |-> DEFAULT_4_BYTES,
     swin |-> DEFAULT_4_BYTES,
     swout |-> DEFAULT_4_BYTES,
     acn_priority |-> 0,
     sw_macro |-> 0,
     sw_remote |-> 0,
     style |-> 0,
     mac_address |-> DEFAULT_6_BYTES,
     bind_ip_address |-> DEFAULT_4_BYTES,
     bind_index |-> 0,
     status2 |-> 0,
     good_output_b |-> DEFAULT_4_BYTES,
     status3 |-> 0,
     default_responder_uid |-> DEFAULT_6_BYTES]

\* PollReply::serialize, statement by statement; the value returned is
\* initial_buf_len - buf.len(), the number of bytes written.
serialize(self, mem) ==
    LET w01 == put_slice(Writer(<<>>, mem), ID)
        w02 == put_u16_le(w01, OP_POLL_REPLY)
        w03 == put_slice(w02, self.ip_address)
        w04 == put_u16_le(w03, self.port)
        w05 == put_u16(w04, self.firmware_version)
        w06 == put_u8(w05, self.net_switch)
        w07 == put_u8(w06, self.sub_switch)
        w08 == put_u16(w07, self.oem)
        w09 == put_u8(w08, self.ubea_version)
        w10 == put_u8(w09, self.status1)
        w11 == put_esta_manufacturer_code(w10, self.esta_manufacturer_code)
        w12 == put_padded_str(SHORT_NAME_LEN, w11, self.short_name)
        w13 == put_padded_str(LONG_NAME_LEN, w12, self.long_name)
        w14 == put_padded_str(REPORT_LEN, w13, self.node_report)
        w15 == put_u16(w14, self.num_ports)
        w16 == put_slice(w15, self.port_types)
        w17 == put_slice(w16, self.good_input)
        w18 == put_slice(w17, self.good_output_a)
        w19 == put_slice(w18, self.swin)
        w20 == put_slice(w19, self.swout)
        w21 == put_u8(w20, self.acn_priority)
        w22 == put_u8(w21, self.sw_macro)
        w23 == put_u8(w22, self.sw_remote)
        w24 == put_slice(w23, Zeroes(3))
        w25 == put_u8(w24, self.style)
        w26 == put_slice(w25, self.mac_address)
        w27 == put_slice(w26, self.bind_ip_address)
        w28 == put_u8(w27, self.bind_index)
        w29 == put_u8(w28, self.status2)
        w30 == put_slice(w29, self.good_output_b)
        w31 == put_u8(w30, self.status3)
        w32 == put_slice(w31, self.default_responder_uid)
        w33 == put_slice(w32, Zeroes(15))
    IN  IF w33.tag = "Panic" THEN Panic
        ELSE [tag |-> "Buf", mem |-> Contents(w33), ret |-> Len(mem) - Len(w33.rest)]

(***************************************************************************)
(* The datagrams the receive loop is tried on.  A payload byte at position *)
(* i is drawn from PayloadBytes(i): positions 1..6 cover the fixed headers *)
(* of Poll, Command and Dmx (flags/sequence, priority/physical, address or *)
(* length bytes), the later positions carry data bytes that differ by      *)
(* position.                                                               *)
(***************************************************************************)
MaxPayload == 9

PayloadBytes(i) ==
    CASE i = 1 -> {1, 5}
      [] i = 2 -> {0, 2}
      [] i = 3 -> {0, 2, 52}
      [] i = 4 -> {0, 18, 146}
      [] i = 5 -> {0, 1}
      [] i = 6 -> {0, 2, 3}
      [] i = 7 -> {255, 7}
      [] i = 8 -> {0, 8}
      [] OTHER -> {i}

RECURSIVE PayloadsOfLen(_)
PayloadsOfLen(n) ==
    IF n = 0 THEN {<<>>}
    ELSE {Append(s, b) : s \in PayloadsOfLen(n - 1), b \in PayloadBytes(n)}

Payloads == UNION {PayloadsOfLen(n) : n \in 0..MaxPayload}

\* Opcode bytes as sent (little-endian): 0x2000, 0x2100, 0x2400, 0x5000,
\* 0x5200, 0x0020 and 0xFFFF.
OpCodeBytes ==
    {<<0, 32>>, <<0, 33>>, <<0, 36>>, <<0, 80>>, <<0, 82>>, <<32, 0>>, <<255, 255>>}

\* Protocol version bytes as sent (big-endian): 0, 14, 15, 0x0E00, 0xFFFF.
VersionBytes == {<<0, 0>>, <<0, 14>>, <<0, 15>>, <<14, 0>>, <<255, 255>>}

\* The magic tag cut short, and with one byte changed.
BadPrefixes ==
    {Take(ID, k) : k \in 0..7}
        \cup {[ID EXCEPT ![i] = (ID[i] + 1) % 256] : i \in 1..8}

Datagrams ==
    {ID \o o \o v \o p : o \in OpCodeBytes, v \in VersionBytes, p \in Payloads}
        \cup {ID \o Take(o \o v, k) :
                o \in OpCodeBytes, v \in VersionBytes, k \in 0..3}
        \cup {b \o o \o v \o p : b \in BadPrefixes, o \in OpCodeBytes,
                v \in {<<0, 14>>}, p \in PayloadsOfLen(2)}
        \cup BadPrefixes

(***************************************************************************)
(* The receive loop of a node: receive a datagram, decode it, handle the   *)
(* outcome, again.  A panic in from_slice ends the program.                *)
(***************************************************************************)
DecodeInit ==
    /\ pc = "recv"
    /\ buf = <<>>
    /\ result = NoResult

Receive ==
    /\ pc = "recv"
    /\ \E d \in Datagrams : buf' = d
    /\ pc' = "decode"
    /\ result' = NoResult
    /\ UNCHANGED notDecodeVars

Decode ==
    /\ pc = "decode"
    /\ result' = from_slice(buf)
    /\ pc' = IF result'.tag = "Panic" THEN "aborted" ELSE "handle"
    /\ UNCHANGED buf
    /\ UNCHANGED notDecodeVars

Handle ==
    /\ pc = "handle"
    /\ pc' = "recv"
    /\ buf' = <<>>
    /\ result' = NoResult
    /\ UNCHANGED notDecodeVars

(***************************************************************************)
(* The other operations are called on their own: each has its input, and   *)
(* its output once it was called.  A specification runs one operation and  *)
(* leaves the variables of the others at rest.                             *)
(***************************************************************************)
PortIdle == pa_bytes = <<>> /\ pa_out = NoResult
IndexIdle == ix_addrs = <<>> /\ ix_out = NoResult
PadIdle ==
    ps_n = 0 /\ ps_input = <<>> /\ ps_before = NoResult /\ ps_after = NoResult
ReplyIdle ==
    /\ reply = DefaultPollReply
    /\ out_before = <<>>
    /\ out_after = NoResult
    /\ written = 0
DecodeIdle == DecodeInit

Init == DecodeInit /\ PortIdle /\ IndexIdle /\ PadIdle /\ ReplyIdle

Next == Receive \/ Decode \/ Handle

Spec == Init /\ [][Next]_vars

(***************************************************************************)
(* parse_port_address on every slice of at most two bytes                  *)
(***************************************************************************)
Byte == 0..255

PortInit ==
    /\ pa_bytes \in {<<>>} \cup {<<b>> : b \in Byte}
                    \cup {<<b0, b1>> : b0 \in Byte, b1 \in Byte}
    /\ pa_out = NoResult

ParsePortAddress ==
    /\ pa_out = NoResult
    /\ pa_out' = parse_port_address(pa_bytes)
    /\ UNCHANGED pa_bytes
    /\ UNCHANGED notPortVars

PortSpecInit == PortInit /\ DecodeIdle /\ IndexIdle /\ PadIdle /\ ReplyIdle

PortSpec == PortSpecInit /\ [][ParsePortAddress]_vars

(***************************************************************************)
(* as_index on two Port-Addresses whose fields are within their widths     *)
(***************************************************************************)
NetValues == {0, 1, 127}
SubNetValues == {0, 1, 15}
UniverseValues == {0, 1, 15}
PortAddresses ==
    {PortAddress(n, s, u) : n \in NetValues, s \in SubNetValues, u \in UniverseValues}

IndexInit ==
    /\ ix_addrs \in PortAddresses \X PortAddresses
    /\ ix_out = NoResult

AsIndex ==
    /\ ix_out = NoResult
    /\ ix_out' = [tag |-> "Index", a |-> as_index(ix_addrs[1]),
                  b |-> as_index(ix_addrs[2])]
    /\ UNCHANGED ix_addrs
    /\ UNCHANGED notIndexVars

IndexSpecInit == IndexInit /\ DecodeIdle /\ PortIdle /\ PadIdle /\ ReplyIdle

IndexSpec == IndexSpecInit /\ [][AsIndex]_vars

(***************************************************************************)
(* put_padded_str::<N> for N = 18 and N = 64, on texts of every length up  *)
(* to MaxTextLen, into destinations with and without room for N bytes      *)
(***************************************************************************)
MaxTextLen == 69
MaxTextKind == 1

\* The bytes of a text: printable ASCII for kind 0, bytes of multi-byte
\* UTF-8 sequences for the other kinds.  Bytes differ from one position to
\* the next.
TextByte(kind, i) ==
    IF kind = 0 THEN 33 + (i % 94) ELSE 128 + ((5 * i + kind) % 64)
Text(kind, len) == [i \in 1..len |-> TextByte(kind, i)]

\* A buffer of n bytes left over from earlier use: no byte of it is zero.
Filled(n) == [i \in 1..n |-> 170]

PadInit ==
    /\ ps_n \in {SHORT_NAME_LEN, LONG_NAME_LEN}
    /\ ps_input \in {Text(k, len) : k \in 0..MaxTextKind, len \in 0..MaxTextLen}
    /\ ps_before \in {Writer(Filled(at), Filled(ps_n + room - at)) :
                        room \in {0, 3}, at \in {0, 2}}
    /\ ps_after = NoResult

PutPaddedStr ==
    /\ ps_after = NoResult
    /\ ps_after' = put_padded_str(ps_n, ps_before, ps_input)
    /\ UNCHANGED <<ps_n, ps_input, ps_before>>
    /\ UNCHANGED notPadVars

PadSpecInit == PadInit /\ DecodeIdle /\ PortIdle /\ IndexIdle /\ ReplyIdle

PadSpec == PadSpecInit /\ [][PutPaddedStr]_vars

(***************************************************************************)
(* PollReply::serialize: a record is built as the example node builds it,  *)
(* from Default with some fields overridden, and serialized into a buffer  *)
(* that holds what an earlier datagram left in it.                         *)
(***************************************************************************)
MaxOverrides == 2

Fields == DOMAIN DefaultPollReply
U8Fields ==
    {"net_switch", "sub_switch", "ubea_version", "status1", "acn_priority",
     "sw_macro", "sw_remote", "style", "bind_index", "status2", "status3"}
U16Fields == {"port", "firmware_version", "oem", "num_ports"}
Array4Fields ==
    {"ip_address", "port_types", "good_input", "good_output_a", "swin",
     "swout", "bind_ip_address", "good_output_b"}
Array6Fields == {"mac_address", "default_responder_uid"}
TextFields == {"short_name", "long_name", "node_report"}

TextWidth(f) ==
    CASE f = "short_name" -> SHORT_NAME_LEN
      [] f = "long_name" -> LONG_NAME_LEN
      [] f = "node_report" -> REPORT_LEN

\* The values a field is overridden with.  A text is shorter than its slot,
\* fills it up to the terminator, or is longer; a manufacturer code is two
\* ASCII letters, or holds a char above U+00FF.
FieldValues(f) ==
    CASE f \in U8Fields -> {1, 254}
      [] f \in U16Fields -> {6454, 65281}
      [] f \in Array4Fields -> {<<127, 0, 0, 1>>, <<128, 2, 3, 255>>}
      [] f \in Array6Fields -> {<<1, 2, 3, 4, 5, 6>>, <<250, 0, 0, 7, 8, 255>>}
      [] f \in TextFields ->
            {Text(0, 12), Text(0, TextWidth(f) - 1), Text(0, TextWidth(f) + 5)}
      [] f = "esta_manufacturer_code" -> {<<65, 122>>, <<76, 322>>}

Overridden(r) == {f \in Fields : r[f] # DefaultPollReply[f]}

ReplyInit == ReplyIdle

SetField ==
    /\ out_after = NoResult
    /\ Cardinality(Overridden(reply)) < MaxOverrides
    /\ \E f \in Fields \ Overridden(reply) :
          \E v \in FieldValues(f) : reply' = [reply EXCEPT ![f] = v]
    /\ UNCHANGED <<out_before, out_after, written>>
    /\ UNCHANGED notReplyVars

Serialize ==
    /\ out_after = NoResult
    /\ \E size \in {200, 239, 242} :
          LET r == serialize(reply, Filled(size))
          IN  /\ out_before' = Filled(size)
              /\ out_after' = IF r.tag = "Panic" THEN Panic
                               ELSE [tag |-> "Buf", mem |-> r.mem]
              /\ written' = IF r.tag = "Panic" THEN 0 ELSE r.ret
    /\ UNCHANGED reply
    /\ UNCHANGED notReplyVars

ReplySpecInit == ReplyInit /\ DecodeIdle /\ PortIdle /\ IndexIdle /\ PadIdle

ReplyNext == SetField \/ Serialize

ReplySpec == ReplySpecInit /\ [][ReplyNext]_vars

(***************************************************************************)
(* Reading a datagram as the wire format lays it out                       *)
(***************************************************************************)
Decoded == pc \in {"handle", "aborted"}
HasMagic(b) == Len(b) >= 8 /\ Take(b, 8) = ID
HasEnvelope(b) == HasMagic(b) /\ Len(b) >= 12
OpCodeOf(b) == b[9] + 256 * b[10]
VersionOf(b) == 256 * b[11] + b[12]
PayloadOf(b) == Drop(b, 12)
KnownOpCodes == {OP_POLL, OP_COMMAND, OP_DMX, OP_SYNC}
Routed(b, op) ==
    HasEnvelope(b) /\ VersionOf(b) <= MAX_PROTOCOL_VERSION /\ OpCodeOf(b) = op
IsParserError(r) == r.tag = "Err" /\ r.err = "ParserError"

\* A Command or Dmx datagram whose declared payload length is greater than
\* the number of bytes after the length field.
CommandOverrun(b) ==
    /\ Routed(b, OP_COMMAND)
    /\ Len(PayloadOf(b)) >= 4
    /\ PayloadOf(b)[3] + 256 * PayloadOf(b)[4] > Len(PayloadOf(b)) - 4
DmxOverrun(b) ==
    /\ Routed(b, OP_DMX)
    /\ Len(PayloadOf(b)) >= 6
    /\ 256 * PayloadOf(b)[5] + PayloadOf(b)[6] > Len(PayloadOf(b)) - 6

\* C1: a Command or Dmx datagram whose declared length exceeds the bytes that
\* remain after the length field is answered with a parse failure returned
\* to the caller - never a panic, never a payload.
C1_OverrunIsParseFailure ==
    (Decoded /\ (CommandOverrun(buf) \/ DmxOverrun(buf)))
        => IsParserError(result)

\* C3 as stated: a Poll with at least 2 payload bytes always decodes; the
\* range is read only when at least 4 more bytes remain and is 0..=65535 in
\* every other case (0, 1, 2 or 3 bytes after the two header bytes).
C3_PollShortRangeDefaults ==
    (Decoded /\ Routed(buf, OP_POLL) /\ Len(PayloadOf(buf)) >= 2)
        => LET p == PayloadOf(buf)
           IN  result = Ok([kind |-> "Poll", flags |-> p[1],
                            min_diagnostic_priority |-> p[2],
                            target_port_addresses |->
                                IF Len(p) >= 6
                                THEN <<256 * p[3] + p[4], 256 * p[5] + p[6]>>
                                ELSE <<0, U16_MAX>>])

\* C3 amended: a Poll with exactly 2 payload bytes decodes with the range
\* 0..=65535; with 6 or more it decodes with the range read from the two
\* big-endian 16-bit values after the header bytes; with 3, 4 or 5
\* payload bytes (1, 2 or 3 after the header bytes) decoding returns a parse
\* failure.  flags and min_diagnostic_priority are the first two bytes.
C3_PollRange ==
    (Decoded /\ Routed(buf, OP_POLL) /\ Len(PayloadOf(buf)) >= 2)
        => LET p == PayloadOf(buf)
           IN  CASE Len(p) = 2 ->
                        result = Ok([kind |-> "Poll", flags |-> p[1],
                                     min_diagnostic_priority |-> p[2],
                                     target_port_addresses |-> <<0, U16_MAX>>])
                 [] Len(p) >= 6 ->
                        result = Ok([kind |-> "Poll", flags |-> p[1],
                                     min_diagnostic_priority |-> p[2],
                                     target_port_addresses |->
                                         <<256 * p[3] + p[4], 256 * p[5] + p[6]>>])
                 [] OTHER -> IsParserError(result)

\* A Poll with a partial range (2 of the 4 range bytes) was refused.
C3_Witness ==
    /\ Decoded
    /\ Routed(buf, OP_POLL)
    /\ Len(PayloadOf(buf)) = 4
    /\ IsParserError(result)

\* C4: with the magic tag, an opcode and a protocol version above 14, the
\* result is UnsupportedProtocolVersion carrying that version, whatever the
\* opcode and the bytes after the envelope.
C4_VersionCheckedFirst ==
    (Decoded /\ HasEnvelope(buf) /\ VersionOf(buf) > MAX_PROTOCOL_VERSION)
        => result = UnsupportedProtocolVersion(VersionOf(buf))

\* Version 0x0E00 with the Dmx opcode and a payload that would overrun.
C4_Witness ==
    /\ Decoded
    /\ HasEnvelope(buf)
    /\ OpCodeOf(buf) = OP_DMX
    /\ VersionOf(buf) = 3584
    /\ Len(PayloadOf(buf)) = 6
    /\ PayloadOf(buf)[5] = 1
    /\ result = UnsupportedProtocolVersion(3584)

\* C5: with the magic tag, a version of at most 14 and an opcode outside
\* {0x2000, 0x2400, 0x5000, 0x5200}, the result is UnsupportedOpCode carrying
\* that opcode, whatever follows the envelope.
C5_UnknownOpCode ==
    (Decoded /\ HasEnvelope(buf) /\ VersionOf(buf) <= MAX_PROTOCOL_VERSION
        /\ OpCodeOf(buf) \notin KnownOpCodes)
        => result = UnsupportedOpCode(OpCodeOf(buf))

\* The reply opcode 0x2100 with a payload was refused.
C5_Witness ==
    /\ Decoded
    /\ HasEnvelope(buf)
    /\ VersionOf(buf) = 14
    /\ OpCodeOf(buf) = 8448
    /\ Len(PayloadOf(buf)) = MaxPayload
    /\ result = UnsupportedOpCode(8448)

\* C6: a slice shorter than 8 bytes, or whose first 8 bytes are not the magic
\* tag, is answered with Error::ParserError.
C6_BadMagicIsParseFailure ==
    (Decoded /\ ~HasMagic(buf)) => IsParserError(result)

\* A full-length Dmx datagram whose tag has its NUL byte changed.
C6_Witness ==
    /\ Decoded
    /\ Len(buf) = 14
    /\ Take(buf, 7) = Take(ID, 7)
    /\ buf[8] # 0
    /\ IsParserError(result)

\* C9: a Dmx datagram with at least L bytes after its length field decodes to
\* Art::Dmx with the sequence and physical bytes, the Port-Address fields of
\* the two address bytes, and exactly the L bytes after the length field.
C9_DmxDecodes ==
    \A L \in 0..MaxPayload :
        (Decoded /\ Routed(buf, OP_DMX) /\ Len(PayloadOf(buf)) >= 6 + L
            /\ 256 * PayloadOf(buf)[5] + PayloadOf(buf)[6] = L)
            => LET p == PayloadOf(buf)
               IN  result = Ok([kind |-> "Dmx", sequence |-> p[1],
                                physical |-> p[2],
                                port_address |-> [net |-> p[4] % 128,
                                                  sub_net |-> p[3] \div 16,
                                                  universe |-> p[3] % 16],
                                data |-> SubSeq(buf, 19, 18 + L)])

\* The example of the specification: sequence 5, physical 0, address bytes
\* 0, 0, length 2, payload 0xFF, 0x00.
C9_Witness ==
    /\ Decoded
    /\ buf = ID \o <<0, 80, 0, 14>> \o <<5, 0, 0, 0, 0, 2, 255, 0>>
    /\ result = Ok([kind |-> "Dmx", sequence |-> 5, physical |-> 0,
                    port_address |-> PortAddress(0, 0, 0),
                    data |-> <<255, 0>>])

\* C2 as stated: sub_net is the low nibble of byte 0, universe its high
\* nibble, net the low 7 bits of byte 1.
C2_SubNetLowNibble ==
    (pa_out # NoResult /\ Len(pa_bytes) = 2)
        => /\ pa_out.ok
           /\ pa_out.val = [net |-> pa_bytes[2] % 128,
                            sub_net |-> pa_bytes[1] % 16,
                            universe |-> pa_bytes[1] \div 16]

\* C2 amended: for every pair of bytes (b0, b1), sub_net is the high nibble
\* of b0 (b0 div 16), universe the low nibble of b0 (b0 mod 16) and net the
\* low 7 bits of b1 (b1 mod 128), the top bit of b1 ignored; both bytes are
\* consumed.
C2_SubNetHighNibble ==
    (pa_out # NoResult /\ Len(pa_bytes) = 2)
        => /\ pa_out.ok
           /\ pa_out.val = [net |-> pa_bytes[2] % 128,
                            sub_net |-> pa_bytes[1] \div 16,
                            universe |-> pa_bytes[1] % 16]
           /\ pa_out.rest = <<>>

\* Bytes 0x34, 0x92 were parsed to sub_net 3, universe 4, net 18.
C2_Witness ==
    /\ pa_bytes = <<52, 146>>
    /\ pa_out # NoResult
    /\ pa_out.ok
    /\ pa_out.val = PortAddress(18, 3, 4)

\* C10: two Port-Addresses within the field widths that differ in any field
\* have different as_index values.
C10_IndexDistinct ==
    (ix_out # NoResult /\ ix_addrs[1] # ix_addrs[2]) => ix_out.a # ix_out.b

\* What put_padded_str::<N> is to leave in the N bytes it appends.
Min(a, b) == IF a < b THEN a ELSE b
PaddedSlot(N, input) ==
    [i \in 1..N |-> IF i <= Min(Len(input), N - 1) THEN input[i] ELSE 0]

\* C7: put_padded_str::<N>, N in {18, 64}, into a destination with room for
\* N bytes appends exactly N bytes for a text of any length: the first
\* min(len, N-1) are the text's, the others zero, the last one always NUL;
\* what the destination held before is kept.
C7_PaddedStr ==
    (ps_after # NoResult /\ Len(ps_before.rest) >= ps_n)
        => /\ ps_after.tag = "Buf"
           /\ Len(ps_after.done) = Len(ps_before.done) + ps_n
           /\ Take(ps_after.done, Len(ps_before.done)) = ps_before.done
           /\ Drop(ps_after.done, Len(ps_before.done)) = PaddedSlot(ps_n, ps_input)
           /\ ps_after.done[Len(ps_after.done)] = 0
           /\ ps_after.rest = Drop(ps_before.rest, ps_n)

\* A text of N + 5 bytes was written into an 18-byte slot after 2 bytes
\* already there.
C7_Witness ==
    /\ ps_n = SHORT_NAME_LEN
    /\ Len(ps_input) = SHORT_NAME_LEN + 5
    /\ Len(ps_before.done) = 2
    /\ ps_after # NoResult
    /\ ps_after.tag = "Buf"
    /\ ps_after.done[2 + SHORT_NAME_LEN - 1] = ps_input[SHORT_NAME_LEN - 1]

\* Re-reading a produced buffer at a fixed offset (offsets count from 0)
ReadU8(m, off) == m[off + 1]
ReadU16LE(m, off) == m[off + 1] + 256 * m[off + 2]
ReadU16BE(m, off) == 256 * m[off + 1] + m[off + 2]
ReadBytes(m, off, n) == SubSeq(m, off + 1, off + n)
\* a NUL-terminated text in a slot of n bytes
ReadText(m, off, n) ==
    LET slot == ReadBytes(m, off, n)
        nuls == {i \in 1..n : slot[i] = 0}
    IN  IF nuls = {} THEN slot
        ELSE Take(slot, (CHOOSE i \in nuls : \A j \in nuls : i <= j) - 1)

\* A record whose values fit the wire: the manufacturer code is two
\* one-byte characters, each text fits its slot with its terminator and
\* holds no NUL.
ValidReply(r) ==
    /\ r.esta_manufacturer_code[1] < 256
    /\ r.esta_manufacturer_code[2] < 256
    /\ \A f \in TextFields :
          /\ Len(r[f]) <= TextWidth(f) - 1
          /\ \A i \in 1..Len(r[f]) : r[f][i] # 0

\* C8: serialize into a buffer of at least 239 bytes returns 239 and leaves
\* every field at its fixed offset, so that reading it back with its width
\* and endianness gives the field's value (texts and the manufacturer code:
\* for a valid record); the spare and filler bytes are zero and the buffer
\* past byte 238 is untouched.
C8_SerializeLayout ==
    (out_after # NoResult /\ Len(out_before) >= 239)
        => /\ out_after.tag = "Buf"
           /\ written = 239
           /\ LET m == out_after.mem
              IN  /\ Len(m) = Len(out_before)
                  /\ Drop(m, 239) = Drop(out_before, 239)
                  /\ ReadBytes(m, 0, 8) = ID
                  /\ ReadU16LE(m, 8) = 8448
                  /\ ReadBytes(m, 10, 4) = reply.ip_address
                  /\ ReadU16LE(m, 14) = reply.port
                  /\ ReadU16BE(m, 16) = reply.firmware_version
                  /\ ReadU8(m, 18) = reply.net_switch
                  /\ ReadU8(m, 19) = reply.sub_switch
                  /\ ReadU16BE(m, 20) = reply.oem
                  /\ ReadU8(m, 22) = reply.ubea_version
                  /\ ReadU8(m, 23) = reply.status1
                  /\ ValidReply(reply) =>
                        /\ ReadBytes(m, 24, 2) = reply.esta_manufacturer_code
                        /\ ReadText(m, 26, 18) = reply.short_name
                        /\ ReadText(m, 44, 64) = reply.long_name
                        /\ ReadText(m, 108, 64) = reply.node_report
                  /\ ReadU8(m, 26 + 17) = 0
                  /\ ReadU8(m, 44 + 63) = 0
                  /\ ReadU8(m, 108 + 63) = 0
                  /\ ReadU16BE(m, 172) = reply.num_ports
                  /\ ReadBytes(m, 174, 4) = reply.port_types
                  /\ ReadBytes(m, 178, 4) = reply.good_input
                  /\ ReadBytes(m, 182, 4) = reply.good_output_a
                  /\ ReadBytes(m, 186, 4) = reply.swin
                  /\ ReadBytes(m, 190, 4) = reply.swout
                  /\ ReadU8(m, 194) = reply.acn_priority
                  /\ ReadU8(m, 195) = reply.sw_macro
                  /\ ReadU8(m, 196) = reply.sw_remote
                  /\ ReadBytes(m, 197, 3) = <<0, 0, 0>>
                  /\ ReadU8(m, 200) = reply.style
                  /\ ReadBytes(m, 201, 6) = reply.mac_address
                  /\ ReadBytes(m, 207, 4) = reply.bind_ip_address
                  /\ ReadU8(m, 211) = reply.bind_index
                  /\ ReadU8(m, 212) = reply.status2
                  /\ ReadBytes(m, 213, 4) = reply.good_output_b
                  /\ ReadU8(m, 217) = reply.status3
                  /\ ReadBytes(m, 218, 6) = reply.default_responder_uid
                  /\ \A i \in 224..238 : ReadU8(m, i) = 0

\* A valid record with its manufacturer code and short name set was
\* serialized into a buffer of exactly 239 bytes.
C8_Witness ==
    /\ out_after # NoResult
    /\ out_after.tag = "Buf"
    /\ Len(out_before) = 239
    /\ written = 239
    /\ reply.esta_manufacturer_code = <<65, 122>>
    /\ reply.short_name = Text(0, 12)
    /\ ValidReply(reply)

=============================================================================
